---- MODULE Spec2Model ----
(***************************************************************************)
(* The grid trading engine of src/app.py (class GridBot, lines 276-451).   *)
(*                                                                         *)
(* Numbers.  Prices are counted in thousandths of the quote currency, so   *)
(* that round(price, 2) is a real rounding (to a multiple of Cent).        *)
(* Amounts, fees and profits are exact rationals [n, d] in lowest terms:   *)
(* the model follows the code's formulas in exact arithmetic and does not  *)
(* describe the last-bit rounding of IEEE doubles.  A tie of round(.., 2)  *)
(* depends on the binary value of the float, so the model resolves a tie   *)
(* either way.  Timestamps (datetime.now()) are left out of the records.   *)
(*                                                                         *)
(* Specifications.  Spec: one bot, started, stopped and ticked.  SpecGrid: *)
(* calculate_grids alone.  SpecCreate: the constructor on valid and        *)
(* invalid configurations.  SpecRegistry: the bots of active_grid_bots,    *)
(* created by create_grid_bot (line 638) at the seconds of a clock.        *)
(* SpecConcurrent: two threads in check_and_execute of one bot.            *)
(***************************************************************************)
EXTENDS Integers, Sequences, FiniteSets, TLC

VARIABLES
    bot,    \* the GridBot object: its attributes, named as in the source
    call,   \* the call just served: [op, price, wasActive (active at entry)]
    ret,    \* the value that call returned
    active_grid_bots,   \* the registry: bot id -> GridBot object
    clock,  \* int(time.time()): the clock of the process, in seconds
    threads \* the calls of check_and_execute in progress: thread -> frame

vars == <<bot, call, ret, active_grid_bots, clock, threads>>

---------------------------------------------------------------------------
(* Bounds of the model *)

\* a tick is enabled when it leaves at most MaxOrders positions in the ledger
MaxOrders == 6
\* SpecGrid: lower/upper prices range over 1..MaxGridPrice (thousandths)
MaxGridPrice == 24
\* SpecGrid: grid counts 1..MaxGridCount
MaxGridCount == 3
\* SpecGrid: investments 1..MaxInvestment
MaxInvestment == 2
\* SpecRegistry: the clock runs over 0..MaxClock seconds
MaxClock == 1
\* SpecRegistry: a tick is enabled when it leaves at most MaxRegistryOrders
\* positions in the ledger of its bot
MaxRegistryOrders == 4

---------------------------------------------------------------------------
(* Program constants *)

\* price units in 0.01: round(price, 2) rounds to a multiple of Cent
Cent == 10
\* the fee rate 0.001 is 1 / FeeDen
FeeDen == 1000

---------------------------------------------------------------------------
(* Exact rational arithmetic for the code's float expressions *)

Abs(x) == IF x < 0 THEN -x ELSE x

RECURSIVE GCD(_, _)
GCD(a, b) == IF b = 0 THEN a ELSE GCD(b, a % b)

\* n / d in lowest terms, d > 0
Rat(n, d) ==
    LET g == GCD(Abs(n), d)
    IN  [n |-> n \div g, d |-> d \div g]

RInt(k) == [n |-> k, d |-> 1]

RMul(x, y) ==
    LET g1 == GCD(Abs(x.n), y.d)
        g2 == GCD(Abs(y.n), x.d)
    IN  Rat((x.n \div g1) * (y.n \div g2), (x.d \div g2) * (y.d \div g1))

\* x / y for y # 0
RDiv(x, y) ==
    RMul(x, IF y.n < 0 THEN [n |-> -y.d, d |-> -y.n] ELSE [n |-> y.d, d |-> y.n])

RAdd(x, y) ==
    LET g == GCD(x.d, y.d)
    IN  Rat(x.n * (y.d \div g) + y.n * (x.d \div g), (x.d \div g) * y.d)

RNeg(x) == [n |-> -x.n, d |-> x.d]

RSub(x, y) == RAdd(x, RNeg(y))

RLess(x, y) ==
    LET g == GCD(x.d, y.d)
    IN  x.n * (y.d \div g) < y.n * (x.d \div g)

\* a price counted in thousandths, as a number of quote units
RPrice(p) == Rat(p, 100 * Cent)

\* Python's None
None == [kind |-> "None"]

---------------------------------------------------------------------------
(* Grid Calculator *)

\* round(price, 2) of the price x = n/d thousandths: the nearest multiple of
\* Cent; a tie goes up when tieUp, down otherwise.
Round2(x, tieUp) ==
    LET m == 2 * x.d * Cent
        s == 2 * x.n + x.d * Cent
        q == s \div m
    IN  IF s % m = 0 /\ ~tieUp THEN (q - 1) * Cent ELSE q * Cent

\* the body of the loop of calculate_grids for index i (0-based)
GridLevel(lower_price, upper_price, grids, i, tieUp) ==
    LET price_range  == upper_price - lower_price
        grid_spacing == Rat(price_range, grids)
        price        == RAdd(RInt(lower_price), RMul(RInt(i), grid_spacing))
    IN  Round2(price, tieUp)

\* range(self.grids): the range below, one short
GridRangeMut(grids) == 0 .. (grids - 1)

\* range(self.grids + 1)
GridRange(grids) == 0 .. grids

\* calculate_grids: the bot with grid_levels and amount_per_grid set; tie[i]
\* resolves a tie of round() at index i.
calculate_grids(b, tie) ==
    [b EXCEPT
        !.grid_levels =
            [k \in 1 .. Cardinality(GridRange(b.grids)) |->
                GridLevel(b.lower_price, b.upper_price, b.grids, k - 1, tie[k - 1])],
        !.amount_per_grid = RDiv(RInt(b.investment), RInt(b.grids))]

\* GridBot.__init__ up to, not including, the call of calculate_grids
NewBot(bot_id, symbol, lower_price, upper_price, grids, investment, mode) ==
    [bot_id          |-> bot_id,
     symbol          |-> symbol,
     lower_price     |-> lower_price,
     upper_price     |-> upper_price,
     grids           |-> grids,
     investment      |-> investment,
     mode            |-> mode,
     active          |-> FALSE,
     grid_levels     |-> <<>>,
     orders          |-> <<>>,
     trades          |-> <<>>,
     profit          |-> RInt(0),
     amount_per_grid |-> None]

---------------------------------------------------------------------------
(* Position Ledger *)

\* tolerance = (upper_price - lower_price) / grids / 2, in thousandths
Tolerance(b) ==
    RDiv(RDiv(RInt(b.upper_price - b.lower_price), RInt(b.grids)), RInt(2))

\* the test of _has_buy_at_level with `and not order['sold']`: only an open
\* BUY counts
BuyNearLevelOpen(b, order, level) ==
    /\ order.type = "BUY"
    /\ ~order.sold
    /\ RLess(RInt(Abs(order.price - level)), Tolerance(b))

\* the test of _has_buy_at_level on one order: sold or not, a BUY counts
BuyNearLevel(b, order, level) ==
    /\ order.type = "BUY"
    /\ RLess(RInt(Abs(order.price - level)), Tolerance(b))

_has_buy_at_level(b, level) ==
    \E i \in 1 .. Len(b.orders) : BuyNearLevel(b, b.orders[i], level)

\* the test of _has_holding_below on one order
HoldingBelow(order, level) ==
    /\ order.type = "BUY"
    /\ order.price < level
    /\ ~order.sold

_has_holding_below(b, level) ==
    \E i \in 1 .. Len(b.orders) : HoldingBelow(b.orders[i], level)

\* fee = amount_usd * 0.001
Fee(amount_usd) == RMul(amount_usd, Rat(1, FeeDen))

_execute_buy(b, level, actual_price) ==
    LET amount_usd    == b.amount_per_grid
        amount_crypto == RDiv(amount_usd, RPrice(actual_price))
        fee           == Fee(amount_usd)
        order == [id            |-> Len(b.orders) + 1,
                  type          |-> "BUY",
                  price         |-> actual_price,
                  grid_level    |-> level,
                  amount_usd    |-> amount_usd,
                  amount_crypto |-> amount_crypto,
                  fee           |-> fee,
                  sold          |-> FALSE]
        trade == [type   |-> "BUY",
                  price  |-> actual_price,
                  amount |-> amount_crypto,
                  value  |-> amount_usd,
                  fee    |-> fee]
    IN  [bot   |-> [b EXCEPT !.orders = Append(@, order),
                             !.trades = Append(@, trade)],
         trade |-> trade]

\* the test below without `not order.get('sold')`
SellCandidateAnySold(order, level) ==
    /\ order.type = "BUY"
    /\ order.price < level

\* the test of the loop of _execute_sell on one order
SellCandidate(order, level) ==
    /\ order.type = "BUY"
    /\ order.price < level
    /\ ~order.sold

\* the comparison below with <= for <
CheaperOrEqual(order, buy_order) == order.price <= buy_order.price

\* order['price'] < buy_order['price']
Cheaper(order, buy_order) == order.price < buy_order.price

\* the loop of _execute_sell from index i on; best is the index of buy_order
\* so far, 0 for None
RECURSIVE LowestBuy(_, _, _, _)
LowestBuy(orders, level, i, best) ==
    IF i > Len(orders) THEN best
    ELSE LowestBuy(orders, level, i + 1,
            IF /\ SellCandidate(orders[i], level)
               /\ (best = 0 \/ Cheaper(orders[i], orders[best]))
            THEN i ELSE best)

\* the profit below without the fee of the buy leg
SellProfitNoBuyFee(amount_usd, buy_order, fee) ==
    RSub(RSub(amount_usd, buy_order.amount_usd), fee)

\* profit = amount_usd - buy_order['amount_usd'] - fee - buy_order['fee']
SellProfit(amount_usd, buy_order, fee) ==
    RSub(RSub(RSub(amount_usd, buy_order.amount_usd), fee), buy_order.fee)

\* amount_usd = amount_crypto * actual_price
SellValue(amount_crypto, actual_price) ==
    RMul(amount_crypto, RPrice(actual_price))

\* buy_order['sold'] = True, with the order taken out of the ledger
MarkSoldRemoving(orders, k) ==
    SubSeq(orders, 1, k - 1) \o SubSeq(orders, k + 1, Len(orders))

\* buy_order['sold'] = True left out
MarkSoldSkipped(orders, k) == orders

\* buy_order['sold'] = True, for the order at index k
MarkSold(orders, k) == [orders EXCEPT ![k].sold = TRUE]

\* self.profit = profit, for +=
AccumulateProfitOverwriting(total, profit) == profit

\* self.profit += profit
AccumulateProfit(total, profit) == RAdd(total, profit)

\* _execute_sell from `buy_order['sold'] = True` on, buy_order being the
\* order at index k of the ledger
RecordSell(b, k, level, actual_price) ==
        LET buy_order     == b.orders[k]
            amount_crypto == buy_order.amount_crypto
            amount_usd    == SellValue(amount_crypto, actual_price)
            fee           == Fee(amount_usd)
            profit        == SellProfit(amount_usd, buy_order, fee)
            sell_order == [id            |-> Len(b.orders) + 1,
                           type          |-> "SELL",
                           price         |-> actual_price,
                           grid_level    |-> level,
                           amount_usd    |-> amount_usd,
                           amount_crypto |-> amount_crypto,
                           fee           |-> fee,
                           profit        |-> profit,
                           buy_order_id  |-> buy_order.id]
            trade == [type   |-> "SELL",
                      price  |-> actual_price,
                      amount |-> amount_crypto,
                      value  |-> amount_usd,
                      fee    |-> fee,
                      profit |-> profit]
        IN  [bot   |-> [b EXCEPT
                          !.orders = Append(MarkSold(@, k), sell_order),
                          !.profit = AccumulateProfit(@, profit),
                          !.trades = Append(@, trade)],
             trade |-> trade]

_execute_sell(b, level, actual_price) ==
    LET k == LowestBuy(b.orders, level, 1, 0)
    IN  IF k = 0 THEN [bot |-> b, trade |-> None]
        ELSE RecordSell(b, k, level, actual_price)

---------------------------------------------------------------------------
(* Grid Decision Engine *)

\* the condition below with < for <=
BuyTriggerStrict(current_price, level) == current_price < level

\* current_price <= level
BuyTrigger(current_price, level) == current_price <= level

\* the condition below left out
SellTriggerAlways(current_price, level) == TRUE

\* current_price >= level
SellTrigger(current_price, level) == current_price >= level

\* `if trade: executed_trades.append(trade)`
Executed(st, r) ==
    [bot      |-> r.bot,
     executed |-> IF r.trade = None THEN st.executed
                  ELSE Append(st.executed, r.trade)]

\* the body of the loop of check_and_execute with `if` for `elif`
LevelStepBoth(st, level, current_price) ==
    LET s1 == IF /\ BuyTrigger(current_price, level)
                 /\ ~_has_buy_at_level(st.bot, level)
              THEN Executed(st, _execute_buy(st.bot, level, current_price))
              ELSE st
    IN  IF SellTrigger(current_price, level) /\ _has_holding_below(s1.bot, level)
        THEN Executed(s1, _execute_sell(s1.bot, level, current_price))
        ELSE s1

\* the loop body with the sell test nested under `else` of the price test:
\* a level the price is at or below is never sold at
LevelStepBuyFirst(st, level, current_price) ==
    IF BuyTrigger(current_price, level)
    THEN IF ~_has_buy_at_level(st.bot, level)
         THEN Executed(st, _execute_buy(st.bot, level, current_price))
         ELSE st
    ELSE IF SellTrigger(current_price, level) /\ _has_holding_below(st.bot, level)
    THEN Executed(st, _execute_sell(st.bot, level, current_price))
    ELSE st

\* the body of the loop of check_and_execute for one level
LevelStep(st, level, current_price) ==
    IF /\ BuyTrigger(current_price, level)
       /\ ~_has_buy_at_level(st.bot, level)
    THEN Executed(st, _execute_buy(st.bot, level, current_price))
    ELSE IF SellTrigger(current_price, level) /\ _has_holding_below(st.bot, level)
    THEN Executed(st, _execute_sell(st.bot, level, current_price))
    ELSE st

\* the loop over enumerate(self.grid_levels), from index i on
RECURSIVE ScanLevels(_, _, _)
ScanLevels(st, i, current_price) ==
    IF i > Len(st.bot.grid_levels) THEN st
    ELSE ScanLevels(LevelStep(st, st.bot.grid_levels[i], current_price),
                    i + 1, current_price)

\* check_and_execute without the test of self.active
check_and_execute_ungated(b, current_price) ==
    LET st == ScanLevels([bot |-> b, executed |-> <<>>], 1, current_price)
    IN  [bot |-> st.bot, ret |-> [kind |-> "list", items |-> st.executed]]

\* check_and_execute: the bot afterwards and the value returned
check_and_execute(b, current_price) ==
    IF ~b.active THEN [bot |-> b, ret |-> None]
    ELSE
    LET st == ScanLevels([bot |-> b, executed |-> <<>>], 1, current_price)
    IN  [bot |-> st.bot, ret |-> [kind |-> "list", items |-> st.executed]]

---------------------------------------------------------------------------
(* Bot Lifecycle Controller *)

\* start with a side effect on the ledger
start_clearing(b) ==
    [bot |-> [b EXCEPT !.active = TRUE, !.orders = <<>>],
     ret |-> [kind |-> "dict", status |-> "started", bot_id |-> b.bot_id]]

start(b) ==
    [bot |-> [b EXCEPT !.active = TRUE],
     ret |-> [kind |-> "dict", status |-> "started", bot_id |-> b.bot_id]]

stop(b) ==
    [bot |-> [b EXCEPT !.active = FALSE],
     ret |-> [kind |-> "dict", status |-> "stopped", bot_id |-> b.bot_id]]

\* get_status()['open_orders']
open_orders(b) ==
    Cardinality({i \in 1 .. Len(b.orders) :
                    b.orders[i].type = "BUY" /\ ~b.orders[i].sold})

---------------------------------------------------------------------------
(* The bots and the price feed of the model *)

\* the configurations bots are created with, each with the prices its feed
\* delivers: the scenario of the specification with the ticks of the
\* scenario and a tick on a level; a three-level grid with ticks on, near,
\* between and beyond its levels; and a range so narrow that rounding to 0.01 makes
\* two levels coincide
\* the empty dict
EmptyDict == [x \in {} |-> None]

\* what the single-bot specifications leave alone
NoRegistry == active_grid_bots = EmptyDict /\ clock = 0 /\ threads = EmptyDict

\* the configuration of the bots of the registry, with its feed
RegistryConfigs ==
    { [lower_price |-> 100, upper_price |-> 200, grids |-> 1, investment |-> 10,
       feed |-> {90, 210}] }

Configs ==
    { [lower_price |-> 100000, upper_price |-> 200000, grids |-> 5, investment |-> 500,
       feed |-> {95000, 100000, 115000, 125000}],
      [lower_price |-> 100, upper_price |-> 300, grids |-> 2, investment |-> 10,
       feed |-> {90, 100, 150, 200, 210, 310}],
      [lower_price |-> 10, upper_price |-> 18, grids |-> 2, investment |-> 10,
       feed |-> {8, 10, 14, 20}] }

\* the prices the feed may deliver to bot b
TickPrices(b) ==
    LET c == CHOOSE x \in Configs \cup RegistryConfigs :
                /\ x.lower_price = b.lower_price
                /\ x.upper_price = b.upper_price
                /\ x.grids = b.grids
    IN  c.feed

\* GridBot(...): __init__ with its call of calculate_grids
Construct(c, tie) ==
    calculate_grids(
        NewBot("grid_1", "BTCUSDT", c.lower_price, c.upper_price, c.grids,
               c.investment, "demo"),
        tie)

Init ==
    /\ \E c \in Configs : \E tie \in [GridRange(c.grids) -> BOOLEAN] :
            bot = Construct(c, tie)
    /\ call = [op |-> "init", price |-> 0, wasActive |-> FALSE]
    /\ ret = None
    /\ NoRegistry

Start ==
    /\ bot' = start(bot).bot
    /\ ret' = start(bot).ret
    /\ call' = [op |-> "start", price |-> 0, wasActive |-> bot.active]
    /\ UNCHANGED <<active_grid_bots, clock, threads>>

Stop ==
    /\ bot' = stop(bot).bot
    /\ ret' = stop(bot).ret
    /\ call' = [op |-> "stop", price |-> 0, wasActive |-> bot.active]
    /\ UNCHANGED <<active_grid_bots, clock, threads>>

Tick ==
    \E p \in TickPrices(bot) :
        LET r == check_and_execute(bot, p)
        IN  /\ Len(r.bot.orders) <= MaxOrders
            /\ bot' = r.bot
            /\ ret' = r.ret
            /\ call' = [op |-> "tick", price |-> p, wasActive |-> bot.active]
            /\ UNCHANGED <<active_grid_bots, clock, threads>>

Next == Start \/ Stop \/ Tick

Spec == Init /\ [][Next]_vars

---------------------------------------------------------------------------
(* The Grid Calculator on its own: calculate_grids applied to the         *)
(* configurations of a bounded range                                       *)

GridConfigs ==
    {[lower_price |-> lo, upper_price |-> up, grids |-> g, investment |-> inv] :
        lo \in 1 .. MaxGridPrice, up \in 1 .. MaxGridPrice,
        g \in 1 .. MaxGridCount, inv \in 1 .. MaxInvestment}

\* lowerPrice < upperPrice, gridCount >= 1, investment > 0
ValidConfig(c) ==
    /\ c.lower_price > 0
    /\ c.lower_price < c.upper_price
    /\ c.grids >= 1
    /\ c.investment > 0

InitGrid ==
    /\ \E c \in GridConfigs \cup
                {[f \in {"lower_price", "upper_price", "grids", "investment"} |-> x[f]] :
                    x \in Configs} :
            /\ ValidConfig(c)
            /\ bot = NewBot("grid_1", "BTCUSDT", c.lower_price, c.upper_price,
                            c.grids, c.investment, "demo")
    /\ call = [op |-> "init", price |-> 0, wasActive |-> FALSE]
    /\ ret = None
    /\ NoRegistry

CalculateGrids ==
    /\ \E tie \in [GridRange(bot.grids) -> BOOLEAN] : bot' = calculate_grids(bot, tie)
    /\ call' = [op |-> "calculate_grids", price |-> 0, wasActive |-> bot.active]
    /\ ret' = None
    /\ UNCHANGED <<active_grid_bots, clock, threads>>

NextGrid == CalculateGrids

SpecGrid == InitGrid /\ [][NextGrid]_vars

---------------------------------------------------------------------------
(* Vocabulary of the claims *)

Orders == bot.orders
Levels == bot.grid_levels
OrderIds == 1 .. Len(bot.orders)
Buys == {i \in OrderIds : bot.orders[i].type = "BUY"}
Sells == {i \in OrderIds : bot.orders[i].type = "SELL"}
OpenBuys == {i \in Buys : ~bot.orders[i].sold}

\* the positions the step appended
NewIds == (Len(bot.orders) + 1) .. Len(bot'.orders)

\* the step served a tick
TickStep == call'.op = "tick"

\* |price - level| < tolerance
WithinTolerance(price, level) ==
    2 * bot.grids * Abs(price - level) < bot.upper_price - bot.lower_price

\* the BUYs that were open just before position j was appended: appended
\* earlier, and matched by no SELL appended earlier
OpenBefore(j) ==
    {i \in Buys : /\ i < j
                  /\ \A k \in Sells : k < j => bot.orders[k].buy_order_id # i}

StrictlyIncreasing(seq) ==
    \A i \in 1 .. Len(seq) - 1 : seq[i] < seq[i + 1]

ScenarioLevels == <<100000, 120000, 140000, 160000, 180000, 200000>>

---------------------------------------------------------------------------
(* C1 -- No double-buy: in every reachable state no two open BUY positions *)
(* have execution prices both within tolerance (half the grid spacing) of  *)
(* the same grid level.  The code violates it: one tick below the grid     *)
(* buys at every level at the same price.                                  *)
C1_NoDoubleBuy ==
    \A i \in OpenBuys : \A j \in OpenBuys :
        i # j =>
            ~ \E k \in 1 .. Len(Levels) :
                /\ WithinTolerance(Orders[i].price, Levels[k])
                /\ WithinTolerance(Orders[j].price, Levels[k])

---------------------------------------------------------------------------
(* C2 -- No double-sell: in every step a BUY that is closed stays closed,  *)
(* no SELL the step appends names a BUY that was closed before the step,   *)
(* and two SELLs appended by the same tick name different BUYs.            *)
C2_NoDoubleSell ==
    [][ /\ \A i \in Buys :
            Orders[i].sold =>
                /\ bot'.orders[i].sold
                /\ \A j \in NewIds :
                      bot'.orders[j].type = "SELL" => bot'.orders[j].buy_order_id # i
        /\ \A j \in NewIds : \A k \in NewIds :
              (/\ j # k
               /\ bot'.orders[j].type = "SELL"
               /\ bot'.orders[k].type = "SELL")
              => bot'.orders[j].buy_order_id # bot'.orders[k].buy_order_id
      ]_vars

\* a tick sold a BUY while another BUY, closed by an earlier tick, was in
\* the ledger
C2_Witness ==
    /\ call.op = "tick"
    /\ ret.kind = "list"
    /\ \E t \in 1 .. Len(ret.items) : ret.items[t].type = "SELL"
    /\ Cardinality(Sells) >
          Cardinality({t \in 1 .. Len(ret.items) : ret.items[t].type = "SELL"})

---------------------------------------------------------------------------
(* C3 -- Profit conservation: every SELL position carries the base amount  *)
(* of the BUY it matched, its quote amount is that base amount times its   *)
(* execution price, each leg's fee is 0.1% of that leg's quote amount, and *)
(* its profit is sell quote - buy quote - sell fee - buy fee.              *)
C3_ProfitConservation ==
    \A j \in Sells :
        LET s == Orders[j]
            b == Orders[s.buy_order_id]
        IN  /\ b.type = "BUY"
            /\ s.amount_crypto = b.amount_crypto
            /\ s.amount_usd = RMul(s.amount_crypto, RPrice(s.price))
            /\ RMul(s.fee, RInt(FeeDen)) = s.amount_usd
            /\ RMul(b.fee, RInt(FeeDen)) = b.amount_usd
            /\ RAdd(RAdd(RAdd(s.profit, b.amount_usd), s.fee), b.fee) = s.amount_usd

\* two round trips closed at different prices, with different profits
C3_Witness ==
    \E j \in Sells : \E k \in Sells :
        /\ Orders[j].price # Orders[k].price
        /\ Orders[j].profit # Orders[k].profit
        /\ Orders[j].profit.n > 0

---------------------------------------------------------------------------
(* C4 -- Cheapest-first matching: the BUY a SELL at level L closed was     *)
(* open when the SELL was recorded, was priced strictly below L, and no    *)
(* other BUY then open and priced below L was cheaper, nor equally cheap   *)
(* with a smaller id.                                                      *)
C4_CheapestFirst ==
    \A j \in Sells :
        LET s == Orders[j]
            m == s.buy_order_id
        IN  /\ m \in OpenBefore(j)
            /\ Orders[m].price < s.grid_level
            /\ \A i \in OpenBefore(j) :
                  Orders[i].price < s.grid_level =>
                      \/ Orders[m].price < Orders[i].price
                      \/ (Orders[m].price = Orders[i].price /\ m <= i)

\* a SELL chose between two open BUYs below its level at different prices
C4_Witness ==
    \E j \in Sells : \E i \in OpenBefore(j) :
        /\ Orders[i].price < Orders[j].grid_level
        /\ Orders[Orders[j].buy_order_id].price < Orders[i].price

---------------------------------------------------------------------------
(* C5 -- Stopped bot, as claimed: a tick on a bot that is not active       *)
(* returns an empty sequence of trade events and leaves the ledger, the    *)
(* trade history and the cumulative profit unchanged.                      *)
C5_InactiveTickReturnsEmpty ==
    [][ (TickStep /\ ~bot.active) =>
            /\ ret' = [kind |-> "list", items |-> <<>>]
            /\ bot'.orders = bot.orders
            /\ bot'.trades = bot.trades
            /\ bot'.profit = bot.profit
      ]_vars

(* C5 -- Stopped bot, as the code has it: a tick on a bot that is not      *)
(* active returns None, not a list, whatever the price, and leaves the     *)
(* whole bot unchanged.                                                    *)
C5_InactiveTickReturnsNone ==
    [][ (TickStep /\ ~bot.active) => (ret' = None /\ bot' = bot) ]_vars

\* a bot with open positions was stopped and then ticked
C5_Witness ==
    /\ call.op = "tick"
    /\ ~call.wasActive
    /\ ret = None
    /\ OpenBuys # {}

---------------------------------------------------------------------------
(* C6 -- Lifecycle frame and idempotence: start, on an active bot as on an *)
(* inactive one, leaves active true, returns the status 'started' with the *)
(* bot's id and changes nothing but the active flag; stop changes nothing  *)
(* but the active flag, so open BUYs stay open.                            *)
C6_LifecycleFrame ==
    [][ /\ call'.op = "start" =>
            /\ bot'.active
            /\ bot' = [bot EXCEPT !.active = TRUE]
            /\ ret' = [kind |-> "dict", status |-> "started", bot_id |-> bot.bot_id]
        /\ call'.op = "stop" =>
            /\ ~bot'.active
            /\ bot' = [bot EXCEPT !.active = FALSE]
            /\ \A i \in OpenBuys : ~bot'.orders[i].sold
      ]_vars

\* start was called on an active bot holding open positions
C6_Witness ==
    /\ call.op = "start"
    /\ call.wasActive
    /\ bot.active
    /\ OpenBuys # {}

---------------------------------------------------------------------------
\* calculate_grids has run
GridsCalculated == call.op = "calculate_grids"

\* the exact, unrounded level of index i (0-based), times grids
ExactLevelTimesGrids(i) ==
    bot.grids * bot.lower_price + i * (bot.upper_price - bot.lower_price)

(* C7 -- Grid levels, as claimed: for every valid config calculate_grids   *)
(* produces gridCount + 1 levels, strictly increasing, uniformly spaced,   *)
(* from lowerPrice to upperPrice exactly, and amountPerGrid is             *)
(* investment / gridCount.                                                 *)
C7_GridLevelsExact ==
    GridsCalculated =>
        /\ Len(Levels) = bot.grids + 1
        /\ StrictlyIncreasing(Levels)
        /\ \A i \in 1 .. Len(Levels) - 1 : \A j \in 1 .. Len(Levels) - 1 :
              Levels[i + 1] - Levels[i] = Levels[j + 1] - Levels[j]
        /\ Levels[1] = bot.lower_price
        /\ Levels[Len(Levels)] = bot.upper_price
        /\ RMul(bot.amount_per_grid, RInt(bot.grids)) = RInt(bot.investment)

(* C7 -- Grid levels, as the code has them: gridCount + 1 levels in        *)
(* non-decreasing order, each a multiple of 0.01 within 0.005 of the exact *)
(* level lowerPrice + i * (upperPrice - lowerPrice) / gridCount, and       *)
(* amountPerGrid = investment / gridCount; when lowerPrice and the spacing *)
(* are multiples of 0.01 the levels are the exact ones: strictly           *)
(* increasing, uniformly spaced, from lowerPrice to upperPrice.            *)
C7_GridLevelsRounded ==
    GridsCalculated =>
        /\ Len(Levels) = bot.grids + 1
        /\ \A k \in 1 .. Len(Levels) :
              /\ Levels[k] % Cent = 0
              /\ 2 * Abs(bot.grids * Levels[k] - ExactLevelTimesGrids(k - 1))
                    <= bot.grids * Cent
        /\ \A k \in 1 .. Len(Levels) - 1 : Levels[k] <= Levels[k + 1]
        /\ RMul(bot.amount_per_grid, RInt(bot.grids)) = RInt(bot.investment)
        /\ (/\ bot.lower_price % Cent = 0
            /\ (bot.upper_price - bot.lower_price) % (bot.grids * Cent) = 0)
           => /\ \A k \in 1 .. Len(Levels) :
                    bot.grids * Levels[k] = ExactLevelTimesGrids(k - 1)
              /\ StrictlyIncreasing(Levels)
              /\ Levels[1] = bot.lower_price
              /\ Levels[Len(Levels)] = bot.upper_price

\* the scenario: lower 100, upper 200, 5 grids, investment 500
C7_Witness ==
    /\ GridsCalculated
    /\ bot.lower_price = 100000 /\ bot.upper_price = 200000
    /\ bot.grids = 5 /\ bot.investment = 500
    /\ Levels = ScenarioLevels
    /\ bot.amount_per_grid = RInt(100)

---------------------------------------------------------------------------
\* the grid levels of the positions first..last of a ledger, in order
LevelsOf(orders, first, last) ==
    [i \in 1 .. (last - first + 1) |-> orders[first + i - 1].grid_level]

\* the levels the price p is at or below, in order
LevelsAtOrAbove(p) ==
    LET AtOrAbove(L) == p <= L
    IN  SelectSeq(Levels, AtOrAbove)

\* a tick at call'.price filled the empty ledger with one open BUY at that
\* price, of amount_per_grid, for each level at or above the price
BuysAtEveryLevelFromPrice ==
    /\ LevelsOf(bot'.orders, 1, Len(bot'.orders)) = LevelsAtOrAbove(call'.price)
    /\ \A i \in 1 .. Len(bot'.orders) :
          /\ bot'.orders[i].type = "BUY"
          /\ bot'.orders[i].price = call'.price
          /\ bot'.orders[i].amount_usd = bot.amount_per_grid
          /\ ~bot'.orders[i].sold

(* C8 -- Buy at every level at or above the price, as claimed: a tick at   *)
(* price p on an active bot with an empty ledger records exactly one BUY,  *)
(* at price p and of amountPerGrid, for each level L with p <= L, and      *)
(* nothing for the levels below p.                                         *)
C8_BuyAtEveryLevel ==
    [][ (TickStep /\ bot.active /\ bot.orders = <<>>)
            => BuysAtEveryLevelFromPrice ]_vars

(* C8 -- the same for a bot whose grid levels are pairwise distinct (no    *)
(* two levels rounded to the same price).                                  *)
C8_BuyAtEveryDistinctLevel ==
    [][ (TickStep /\ bot.active /\ bot.orders = <<>> /\ StrictlyIncreasing(Levels))
            => BuysAtEveryLevelFromPrice ]_vars

\* the scenario: price 95 on levels [100 .. 200] gave 6 buys at 95
C8_Witness ==
    /\ call.op = "tick"
    /\ call.price = 95000
    /\ Levels = ScenarioLevels
    /\ ret.kind = "list"
    /\ Len(ret.items) = 6
    /\ Len(Orders) = 6
    /\ \A i \in OrderIds : Orders[i].type = "BUY" /\ Orders[i].price = 95000

---------------------------------------------------------------------------
(* C9 -- Bounded trades per tick: a tick appends at most one position per  *)
(* grid level, in level order, so at most gridCount + 1 positions, and     *)
(* returns one trade event per position appended.                          *)
C9_BoundedTradesPerTick ==
    [][ TickStep =>
        LET n == Len(bot'.orders) - Len(bot.orders)
            new == LevelsOf(bot'.orders, Len(bot.orders) + 1, Len(bot'.orders))
        IN  /\ n >= 0
            /\ n <= bot.grids + 1
            /\ n <= Len(Levels)
            /\ ret'.kind = "list" => Len(ret'.items) = n
            /\ ret' = None => n = 0
            /\ \A i \in 1 .. n - 1 : new[i] <= new[i + 1]
            /\ \A i \in 1 .. n :
                  Cardinality({j \in 1 .. n : new[j] = new[i]})
                      <= Cardinality({k \in 1 .. Len(Levels) : Levels[k] = new[i]})
      ]_vars

\* a tick at which every level acted, some buying and some selling
C9_Witness ==
    /\ call.op = "tick"
    /\ ret.kind = "list"
    /\ Len(ret.items) = Len(Levels)
    /\ \E t \in 1 .. Len(ret.items) : ret.items[t].type = "SELL"
    /\ \E t \in 1 .. Len(ret.items) : ret.items[t].type = "BUY"

---------------------------------------------------------------------------
(* C10 -- Same-price round trip.  The case of the claim, a SELL at the     *)
(* execution price of the BUY it matched, is one no tick produces: a SELL  *)
(* at level L needs current_price >= L and a BUY priced strictly below L.  *)
(* SamePriceRoundTrip is the state the claim speaks of; TLC finds it       *)
(* unreachable, so the claim is left unsettled.                            *)
SamePriceRoundTrip ==
    \E j \in Sells : Orders[j].price = Orders[Orders[j].buy_order_id].price

NoSamePriceRoundTrip == ~SamePriceRoundTrip

---------------------------------------------------------------------------
\* the sum of the profit fields of the SELL positions among the first i
\* positions of the ledger
RECURSIVE SumSellProfits(_, _)
SumSellProfits(orders, i) ==
    IF i = 0 THEN RInt(0)
    ELSE IF orders[i].type = "SELL"
         THEN RAdd(SumSellProfits(orders, i - 1), orders[i].profit)
         ELSE SumSellProfits(orders, i - 1)

(* C14 -- Cumulative profit: in every reachable state the bot's cumulative *)
(* profit is the sum of the profit fields of all SELL positions of its     *)
(* ledger (exact arithmetic); a step that records no SELL -- a buy, start, *)
(* stop, an idle tick -- therefore leaves it unchanged.                    *)
C14_ProfitIsSumOfSells ==
    bot.profit = SumSellProfits(Orders, Len(Orders))

\* two SELLs have been recorded, BUYs after the first of them, and start
\* and stop have been served since: the profit is that of two matches
C14_Witness ==
    /\ Cardinality(Sells) >= 2
    /\ \E j \in Sells : \E i \in Buys : i > j
    /\ bot.profit # RInt(0)
    /\ \E j \in Sells : bot.profit # Orders[j].profit
    /\ call.op \in {"start", "stop"}

---------------------------------------------------------------------------
(* C15 -- Append-only history: in every step the ledger keeps its          *)
(* positions in place and does not get shorter; a SELL already in the      *)
(* ledger is left as it is; a BUY already in the ledger is left as it is   *)
(* or differs from itself only by its sold flag, which was false and has   *)
(* become true.                                                            *)
C15_AppendOnly ==
    [][/\ Len(bot'.orders) >= Len(bot.orders)
       /\ \A i \in OrderIds :
            \/ bot'.orders[i] = bot.orders[i]
            \/ /\ bot.orders[i].type = "BUY"
               /\ ~bot.orders[i].sold
               /\ bot'.orders[i] = [bot.orders[i] EXCEPT !.sold = TRUE]]_vars

\* a tick has closed a BUY that is not the last BUY of the ledger, after an
\* earlier tick had already recorded a SELL
C15_Witness ==
    /\ call.op = "tick"
    /\ ret.kind = "list"
    /\ \E j \in Sells : \E k \in Sells :
            /\ j <= Len(Orders) - Len(ret.items)
            /\ k > Len(Orders) - Len(ret.items)
            /\ \E i \in Buys : i > Orders[k].buy_order_id /\ i < j

---------------------------------------------------------------------------
\* the bot and the trades executed so far when the loop of check_and_execute
\* reaches the level of index k: the levels of index 1 .. k-1 have been
\* processed
RECURSIVE ScanBefore(_, _, _)
ScanBefore(b, k, current_price) ==
    IF k = 1 THEN [bot |-> b, executed |-> <<>>]
    ELSE LevelStep(ScanBefore(b, k - 1, current_price),
                   b.grid_levels[k - 1], current_price)

\* the positions the step appended for grid level `level`
NewAtLevel(type, level) ==
    {j \in NewIds : bot'.orders[j].type = type /\ bot'.orders[j].grid_level = level}

\* the tick being served finds, when its scan reaches the level of index k,
\* the price exactly on that level, a BUY within tolerance of it (so that no
\* buy fires) and an open BUY strictly below it
ExactTouchOccupied(k) ==
    LET level == Levels[k]
        b == ScanBefore(bot, k, call'.price).bot
    IN  /\ call'.price = level
        /\ \E i \in 1 .. Len(b.orders) :
                /\ b.orders[i].type = "BUY"
                /\ WithinTolerance(b.orders[i].price, level)
        /\ \E i \in 1 .. Len(b.orders) :
                /\ b.orders[i].type = "BUY"
                /\ ~b.orders[i].sold
                /\ b.orders[i].price < level

(* C17 -- Exact level touch, as claimed: on a tick of an active bot whose  *)
(* price equals a grid level L, when L is occupied (no new buy fires) and  *)
(* an open BUY exists strictly below L, the sell branch is skipped: the    *)
(* tick records no SELL for level L.                                       *)
C17_SellSkippedAtExactTouch ==
    [][(TickStep /\ bot.active) =>
        \A k \in 1 .. Len(Levels) :
            ExactTouchOccupied(k) => NewAtLevel("SELL", Levels[k]) = {}]_vars

(* C17 -- Exact level touch, as the code has it: on a tick of an active    *)
(* bot whose price equals a grid level L, when L is occupied (no new buy   *)
(* fires) and an open BUY exists strictly below L, the elif branch is      *)
(* taken: the tick records a SELL for level L, at the tick's price, that   *)
(* closes a BUY made strictly below L.                                     *)
C17_SellFiresAtExactTouch ==
    [][(TickStep /\ bot.active) =>
        \A k \in 1 .. Len(Levels) :
            ExactTouchOccupied(k) =>
                \E j \in NewAtLevel("SELL", Levels[k]) :
                    /\ bot'.orders[j].price = call'.price
                    /\ bot'.orders[bot'.orders[j].buy_order_id].price < Levels[k]]_vars

\* a tick at exactly a level has sold, for that level, a BUY made below it
\* while a BUY within tolerance of the level was in the ledger before
C17_Witness ==
    /\ call.op = "tick"
    /\ call.wasActive
    /\ \E j \in Sells :
        /\ j > Len(Orders) - Len(ret.items)
        /\ Orders[j].grid_level = call.price
        /\ Orders[j].price = call.price
        /\ Orders[Orders[j].buy_order_id].price < call.price
        /\ \E i \in Buys : i < j /\ WithinTolerance(Orders[i].price, call.price)

---------------------------------------------------------------------------
\* the ledger when the scan of the tick being served reaches level index k
LedgerAt(k) == ScanBefore(bot, k, call'.price).bot.orders

\* the tick being served records a BUY when its scan processes level index
\* k: the position that follows the ledger of that moment is a BUY for that
\* level at the tick's price
BuyFiresAt(k) ==
    LET n == Len(LedgerAt(k)) + 1
    IN  /\ n <= Len(bot'.orders)
        /\ bot'.orders[n].type = "BUY"
        /\ bot'.orders[n].grid_level = Levels[k]
        /\ bot'.orders[n].price = call'.price
        /\ Len(LedgerAt(k + 1)) = n

(* C18 -- Occupancy rule: on a tick of an active bot that scans the levels *)
(* in ascending index order, a BUY is recorded at level L exactly when the *)
(* price is at or below L and no BUY in the ledger at that moment -- open  *)
(* or closed, recorded before the tick or earlier in it -- has an          *)
(* execution price within tolerance (half the grid spacing) of L.          *)
C18_OccupancyRule ==
    [][(TickStep /\ bot.active) =>
        \A k \in 1 .. Len(Levels) :
            BuyFiresAt(k) <=>
                /\ call'.price <= Levels[k]
                /\ \A i \in 1 .. Len(LedgerAt(k)) :
                        LedgerAt(k)[i].type = "BUY" =>
                            ~WithinTolerance(LedgerAt(k)[i].price, Levels[k])]_vars

\* a tick at or below a level has recorded nothing for it although no open
\* BUY is within tolerance of the level: the BUYs within tolerance were
\* closed by SELLs of earlier ticks
C18_Witness ==
    /\ call.op = "tick"
    /\ call.wasActive
    /\ \E k \in 1 .. Len(Levels) :
        /\ call.price <= Levels[k]
        /\ \A j \in OrderIds :
                j > Len(Orders) - Len(ret.items) => Orders[j].grid_level # Levels[k]
        /\ \E i \in Buys : WithinTolerance(Orders[i].price, Levels[k])
        /\ \A i \in Buys :
                WithinTolerance(Orders[i].price, Levels[k]) =>
                    \E j \in Sells : /\ j <= Len(Orders) - Len(ret.items)
                                     /\ Orders[j].buy_order_id = i

---------------------------------------------------------------------------
(* C19 -- Sell gating: every SELL position was recorded at a price at or   *)
(* above its grid level L and closed a BUY that was open at that moment    *)
(* and had been executed strictly below L; so the execution price of a     *)
(* SELL is strictly greater than that of the BUY it matched, and a BUY     *)
(* precedes every SELL in the ledger.                                      *)
C19_SellGating ==
    \A j \in Sells :
        LET m == Orders[j].buy_order_id
        IN  /\ Orders[j].price >= Orders[j].grid_level
            /\ m \in OpenBefore(j)
            /\ Orders[m].price < Orders[j].grid_level
            /\ Orders[m].price < Orders[j].price
            /\ \E i \in Buys : i < j

\* SELLs have been recorded both at exactly their level and above it
C19_Witness ==
    /\ \E j \in Sells : Orders[j].price = Orders[j].grid_level
    /\ \E j \in Sells : Orders[j].price > Orders[j].grid_level

---------------------------------------------------------------------------
(* C20 -- Ledger matching consistency: the position at index i of the      *)
(* ledger has id i; the buy_order_id of every SELL is the id of a BUY      *)
(* recorded before it; two SELLs name different BUYs; a BUY is sold exactly *)
(* when one SELL names it (and no SELL names an unsold BUY); the count of  *)
(* open orders that get_status reports is the number of BUYs minus the     *)
(* number of SELLs.                                                        *)
C20_LedgerMatching ==
    /\ \A i \in OrderIds : Orders[i].id = i
    /\ \A j \in Sells : Orders[j].buy_order_id \in Buys /\ Orders[j].buy_order_id < j
    /\ \A j \in Sells : \A k \in Sells :
            Orders[j].buy_order_id = Orders[k].buy_order_id => j = k
    /\ \A i \in Buys :
            Orders[i].sold <=>
                Cardinality({j \in Sells : Orders[j].buy_order_id = i}) = 1
    /\ open_orders(bot) = Cardinality(Buys) - Cardinality(Sells)

\* BUYs and SELLs alternate in the ledger: some BUYs are matched, a BUY
\* recorded after a SELL is still open
C20_Witness ==
    /\ Cardinality(Sells) >= 2
    /\ \E i \in OpenBuys : \E j \in Sells : i > j
    /\ open_orders(bot) >= 1
    /\ open_orders(bot) < Cardinality(Buys)

---------------------------------------------------------------------------
(* Construction on its own: GridBot(...) applied to configurations of a    *)
(* bounded range, valid or not.  `bot` is the name the new object is bound *)
(* to: None until a construction has returned; a behaviour constructs one  *)
(* bot.                                                                    *)

CreateConfigs ==
    {[lower_price |-> lo, upper_price |-> up, grids |-> g, investment |-> inv] :
        lo \in 1 .. MaxGridPrice, up \in 1 .. MaxGridPrice,
        g \in -1 .. MaxGridCount, inv \in -1 .. MaxInvestment}

InitCreate ==
    /\ bot = None
    /\ call = [op |-> "init", price |-> 0, wasActive |-> FALSE]
    /\ ret = None
    /\ NoRegistry

\* bot = GridBot(...): __init__ runs to its end, there is no test of the
\* arguments on the way
GridBotInit ==
    /\ bot = None
    /\ \E c \in CreateConfigs : \E tie \in [GridRange(c.grids) -> BOOLEAN] :
            /\ c.grids # 0
            /\ bot' = Construct(c, tie)
    /\ call' = [op |-> "GridBot", price |-> 0, wasActive |-> FALSE]
    /\ ret' = None
    /\ UNCHANGED <<active_grid_bots, clock, threads>>

\* bot = GridBot(..., grids=0, ...): price_range / self.grids raises
\* ZeroDivisionError in calculate_grids and nothing is bound
GridBotInitRaises ==
    /\ bot = None
    /\ \E c \in CreateConfigs : c.grids = 0
    /\ call' = [op |-> "GridBot", price |-> 0, wasActive |-> FALSE]
    /\ ret' = [kind |-> "exception", name |-> "ZeroDivisionError"]
    /\ UNCHANGED <<bot, active_grid_bots, clock, threads>>

NextCreate == GridBotInit \/ GridBotInitRaises

SpecCreate == InitCreate /\ [][NextCreate]_vars

(* C11 -- Config rejection: no bot exists whose configuration is invalid   *)
(* (lower price not below upper price, grid count below 1, or investment   *)
(* not positive): every constructed bot has a valid configuration.  The    *)
(* code violates it: __init__ tests nothing, and only a grid count of 0    *)
(* stops the construction, by a ZeroDivisionError.                         *)
C11_InvalidConfigRejected ==
    bot # None => ValidConfig(bot)

---------------------------------------------------------------------------
(* The registry: bots created by create_grid_bot at the seconds of a       *)
(* clock, and started, stopped and ticked by their id.  `bot` is the local *)
(* variable of create_grid_bot: the object constructed last.               *)

\* f"grid_{int(time.time())}"
NewBotId(now) == <<"grid_", now>>

\* active_grid_bots[bot_id] = bot
Register(registry, bot_id, b) ==
    [id \in DOMAIN registry \cup {bot_id} |->
        IF id = bot_id THEN b ELSE registry[id]]

\* the object of one id and every other object of the registry are one object
MutateAll(registry, bot_id, b) ==
    [id \in DOMAIN registry |-> b]

\* a method of the object registered under bot_id has run and left it as b:
\* the methods assign to attributes of self only
Mutate(registry, bot_id, b) ==
    [registry EXCEPT ![bot_id] = b]

\* create_grid_bot: the id, the new GridBot, its registration
create_grid_bot(registry, now, c, tie) ==
    LET bot_id == NewBotId(now)
        b == calculate_grids(
                NewBot(bot_id, "BTCUSDT", c.lower_price, c.upper_price, c.grids,
                       c.investment, "demo"),
                tie)
    IN  [bot      |-> b,
         registry |-> Register(registry, bot_id, b),
         ret      |-> [kind |-> "dict", status |-> "created", bot_id |-> bot_id]]

InitRegistry ==
    /\ bot = None
    /\ call = [op |-> "init", price |-> 0, wasActive |-> FALSE, bot_id |-> None]
    /\ ret = None
    /\ active_grid_bots = EmptyDict
    /\ clock = 0
    /\ threads = EmptyDict

\* a second passes, no call is served
ClockTick ==
    /\ clock < MaxClock
    /\ clock' = clock + 1
    /\ call' = [op |-> "none", price |-> 0, wasActive |-> FALSE, bot_id |-> None]
    /\ ret' = None
    /\ UNCHANGED <<bot, active_grid_bots, threads>>

CreateGridBot ==
    /\ \E c \in RegistryConfigs : \E tie \in [GridRange(c.grids) -> BOOLEAN] :
        LET r == create_grid_bot(active_grid_bots, clock, c, tie)
        IN  /\ bot' = r.bot
            /\ active_grid_bots' = r.registry
            /\ ret' = r.ret
            /\ call' = [op |-> "create_grid_bot", price |-> 0, wasActive |-> FALSE,
                        bot_id |-> r.bot.bot_id]
    /\ UNCHANGED <<clock, threads>>

RegistryStart ==
    \E id \in DOMAIN active_grid_bots :
        LET r == start(active_grid_bots[id])
        IN  /\ active_grid_bots' = Mutate(active_grid_bots, id, r.bot)
            /\ ret' = r.ret
            /\ call' = [op |-> "start", price |-> 0,
                        wasActive |-> active_grid_bots[id].active, bot_id |-> id]
            /\ UNCHANGED <<bot, clock, threads>>

RegistryStop ==
    \E id \in DOMAIN active_grid_bots :
        LET r == stop(active_grid_bots[id])
        IN  /\ active_grid_bots' = Mutate(active_grid_bots, id, r.bot)
            /\ ret' = r.ret
            /\ call' = [op |-> "stop", price |-> 0,
                        wasActive |-> active_grid_bots[id].active, bot_id |-> id]
            /\ UNCHANGED <<bot, clock, threads>>

RegistryTick ==
    \E id \in DOMAIN active_grid_bots : \E p \in TickPrices(active_grid_bots[id]) :
        LET r == check_and_execute(active_grid_bots[id], p)
        IN  /\ Len(r.bot.orders) <= MaxRegistryOrders
            /\ active_grid_bots' = Mutate(active_grid_bots, id, r.bot)
            /\ ret' = r.ret
            /\ call' = [op |-> "tick", price |-> p,
                        wasActive |-> active_grid_bots[id].active, bot_id |-> id]
            /\ UNCHANGED <<bot, clock, threads>>

NextRegistry ==
    ClockTick \/ CreateGridBot \/ RegistryStart \/ RegistryStop \/ RegistryTick

SpecRegistry == InitRegistry /\ [][NextRegistry]_vars

\* the step served a tick, start or stop of the bot registered under an id
\* other than id
OperationOnOther(id) ==
    /\ call'.op \in {"tick", "start", "stop"}
    /\ call'.bot_id # id

(* C12 -- Bot id uniqueness: every creation of a bot assigns an id that no *)
(* bot of the registry has, so that no creation replaces an entry of the   *)
(* registry.  The code violates it: the id is the clock's second, and two  *)
(* creations within one second get the same id.                            *)
C12_BotIdUnique ==
    [][call'.op = "create_grid_bot" =>
            bot'.bot_id \notin DOMAIN active_grid_bots]_vars

(* C16 -- Bot isolation: a tick, a start or a stop of one bot leaves every *)
(* other bot of the registry registered and unchanged: its levels, active  *)
(* flag, ledger, trade history and cumulative profit (all its attributes). *)
C16_BotIsolation ==
    [][\A id \in DOMAIN active_grid_bots :
            OperationOnOther(id) =>
                /\ id \in DOMAIN active_grid_bots'
                /\ active_grid_bots'[id] = active_grid_bots[id]]_vars

\* a tick has recorded trades for one bot while another bot of the registry
\* is active with positions of its own, some of them closed
C16_Witness ==
    /\ call.op = "tick"
    /\ ret.kind = "list"
    /\ ret.items # <<>>
    /\ \E id \in DOMAIN active_grid_bots :
        /\ id # call.bot_id
        /\ active_grid_bots[id].active
        /\ \E i \in 1 .. Len(active_grid_bots[id].orders) :
                active_grid_bots[id].orders[i].type = "SELL"
        /\ active_grid_bots[id].orders # active_grid_bots[call.bot_id].orders

---------------------------------------------------------------------------
(* Concurrent ticks of one bot: check_and_execute run by several threads   *)
(* on the same GridBot object, with no lock in the class or in the module. *)
(* A thread may be preempted between the test of a level (line 326 or 332) *)
(* and the call it leads to, and in _execute_sell between the search of    *)
(* the BUY to match (lines 389-393) and its recording (lines 398-433).     *)
(* threads[t] is the frame of thread t: pc, the tick's price, the index i  *)
(* of the level being processed, executed_trades, and the index k of       *)
(* buy_order in the ledger.                                                *)

Threads == {"t1", "t2"}

IdleFrame == [pc |-> "idle", price |-> 0, i |-> 0, executed |-> <<>>, k |-> 0]

\* the level the thread of frame f is processing
FrameLevel(f) == bot.grid_levels[f.i]

\* the frame after the body of the loop for its level, with the trade
\* appended to executed_trades
NextLevel(f, trade) ==
    [f EXCEPT !.pc = "loop", !.i = @ + 1, !.k = 0,
              !.executed = IF trade = None THEN @ ELSE Append(@, trade)]

InitConcurrent ==
    /\ \E c \in RegistryConfigs : \E tie \in [GridRange(c.grids) -> BOOLEAN] :
            bot = Construct(c, tie)
    /\ call = [op |-> "init", price |-> 0, wasActive |-> FALSE, thread |-> None]
    /\ ret = None
    /\ active_grid_bots = EmptyDict
    /\ clock = 0
    /\ threads = [t \in Threads |-> IdleFrame]

ConcurrentStart ==
    /\ bot' = start(bot).bot
    /\ ret' = start(bot).ret
    /\ call' = [op |-> "start", price |-> 0, wasActive |-> bot.active, thread |-> None]
    /\ UNCHANGED <<active_grid_bots, clock, threads>>

ConcurrentStop ==
    /\ bot' = stop(bot).bot
    /\ ret' = stop(bot).ret
    /\ call' = [op |-> "stop", price |-> 0, wasActive |-> bot.active, thread |-> None]
    /\ UNCHANGED <<active_grid_bots, clock, threads>>

\* check_and_execute(current_price) is called: `if not self.active: return None`,
\* else executed_trades = [] and the loop begins
Enter ==
    \E t \in Threads : \E p \in TickPrices(bot) :
        /\ threads[t].pc = "idle"
        /\ call' = [op |-> "tick", price |-> p, wasActive |-> bot.active, thread |-> t]
        /\ IF bot.active
           THEN /\ threads' = [threads EXCEPT ![t] = [IdleFrame EXCEPT !.pc = "loop",
                                                                   !.price = p, !.i = 1]]
                /\ UNCHANGED ret
           ELSE /\ ret' = None
                /\ UNCHANGED threads
        /\ UNCHANGED <<bot, active_grid_bots, clock>>

\* the tests of the loop body for the current level: which branch is taken
CheckLevel ==
    \E t \in Threads :
        LET f == threads[t]
        IN  /\ f.pc = "loop"
            /\ f.i <= Len(bot.grid_levels)
            /\ threads' = [threads EXCEPT ![t] =
                    IF /\ BuyTrigger(f.price, FrameLevel(f))
                       /\ ~_has_buy_at_level(bot, FrameLevel(f))
                    THEN [f EXCEPT !.pc = "buy"]
                    ELSE IF /\ SellTrigger(f.price, FrameLevel(f))
                            /\ _has_holding_below(bot, FrameLevel(f))
                    THEN [f EXCEPT !.pc = "sell"]
                    ELSE NextLevel(f, None)]
            /\ UNCHANGED <<bot, call, ret, active_grid_bots, clock>>

\* trade = self._execute_buy(level, current_price)
ThreadBuy ==
    \E t \in Threads :
        LET f == threads[t]
            r == _execute_buy(bot, FrameLevel(f), f.price)
        IN  /\ f.pc = "buy"
            /\ Len(r.bot.orders) <= MaxRegistryOrders
            /\ bot' = r.bot
            /\ threads' = [threads EXCEPT ![t] = NextLevel(f, r.trade)]
            /\ UNCHANGED <<call, ret, active_grid_bots, clock>>

\* _execute_sell, the search of buy_order: `if not buy_order: return None`
ThreadSellSearch ==
    \E t \in Threads :
        LET f == threads[t]
            k == LowestBuy(bot.orders, FrameLevel(f), 1, 0)
        IN  /\ f.pc = "sell"
            /\ threads' = [threads EXCEPT ![t] =
                    IF k = 0 THEN NextLevel(f, None)
                    ELSE [f EXCEPT !.pc = "record", !.k = k]]
            /\ UNCHANGED <<bot, call, ret, active_grid_bots, clock>>

\* _execute_sell, from buy_order['sold'] = True to the return of the trade
ThreadSellRecord ==
    \E t \in Threads :
        LET f == threads[t]
            r == RecordSell(bot, f.k, FrameLevel(f), f.price)
        IN  /\ f.pc = "record"
            /\ Len(r.bot.orders) <= MaxRegistryOrders
            /\ bot' = r.bot
            /\ threads' = [threads EXCEPT ![t] = NextLevel(f, r.trade)]
            /\ UNCHANGED <<call, ret, active_grid_bots, clock>>

\* return executed_trades
ThreadReturn ==
    \E t \in Threads :
        LET f == threads[t]
        IN  /\ f.pc = "loop"
            /\ f.i > Len(bot.grid_levels)
            /\ ret' = [kind |-> "list", items |-> f.executed]
            /\ call' = [op |-> "return", price |-> f.price, wasActive |-> TRUE,
                        thread |-> t]
            /\ threads' = [threads EXCEPT ![t] = IdleFrame]
            /\ UNCHANGED <<bot, active_grid_bots, clock>>

NextConcurrent ==
    \/ ConcurrentStart \/ ConcurrentStop \/ Enter \/ CheckLevel
    \/ ThreadBuy \/ ThreadSellSearch \/ ThreadSellRecord \/ ThreadReturn

SpecConcurrent == InitConcurrent /\ [][NextConcurrent]_vars

(* C13 -- Per-bot serialization: whatever the interleaving of two ticks of *)
(* one bot, no two SELL positions are matched to the same BUY position,    *)
(* and no two BUY positions are recorded for the same level when the first *)
(* of them occupies the level (its execution price is within tolerance of  *)
(* the level), as happens when both come from one unoccupied check.  The   *)
(* code violates it: nothing makes the check and the record of a           *)
(* check_and_execute exclude those of another.                             *)
C13_SerializedOutcome ==
    /\ \A j \in Sells : \A k \in Sells :
            Orders[j].buy_order_id = Orders[k].buy_order_id => j = k
    /\ \A i \in Buys : \A j \in Buys :
            (i < j /\ Orders[i].grid_level = Orders[j].grid_level) =>
                ~WithinTolerance(Orders[i].price, Orders[i].grid_level)

---------------------------------------------------------------------------
\* the sum of the amount_usd fields of the unsold BUY positions among the
\* first i positions of the ledger
RECURSIVE SumOpenBuyAmounts(_, _)
SumOpenBuyAmounts(orders, i) ==
    IF i = 0 THEN RInt(0)
    ELSE IF orders[i].type = "BUY" /\ ~orders[i].sold
         THEN RAdd(SumOpenBuyAmounts(orders, i - 1), orders[i].amount_usd)
         ELSE SumOpenBuyAmounts(orders, i - 1)

(* C21 -- Capital bound: in every reachable state the quote amounts of the *)
(* open (unsold) BUY positions sum to at most the bot's investment, and    *)
(* the number of open BUY positions is at most the grid count.  The code   *)
(* violates it: there are grids + 1 levels, each bought with investment /  *)
(* grids, and a level is bought again when no BUY was executed near it.    *)
C21_CapitalBound ==
    /\ ~RLess(RInt(bot.investment), SumOpenBuyAmounts(Orders, Len(Orders)))
    /\ Cardinality(OpenBuys) <= bot.grids

============================================================================
